---- MODULE Spec2Model ----
(***************************************************************************)
(* A model of python/sw_pll_sim.py: the application-PLL frequency formula  *)
(* (app_pll_frac_calc), the fractions.h lookup table (parse_lut_h_file),   *)
(* the error-to-frequency mapper (error_to_pll_output_frequency) and the   *)
(* PI/PII control loop (sw_pll_ctrl).                                      *)
(*                                                                         *)
(* Numbers.  The code computes in Python floats.  The model computes in    *)
(* exact rationals over fixed denominators and draws its inputs from      *)
(* dyadic values, for which the float arithmetic of the code is exact:     *)
(*   - a frequency is a pair <<num, den>> in MHz (the code's Hz / 10^6);   *)
(*   - a count held as a float and a raw error are in units of 1/CntDen;   *)
(*   - a gain is in units of 1/GainDen;                                    *)
(*   - a weighted term, a windup limit and the total error are in units of *)
(*     1/ErrDen, ErrDen = CntDen * GainDen.                                *)
(* A Python value whose type the code tests is a record [v, int]: int is   *)
(* TRUE for a Python int and FALSE for a float of the same value.          *)
(***************************************************************************)
EXTENDS Integers, Sequences, FiniteSets, TLC

VARIABLES pc, pll, lut_reg, ctrl, drv, res, prev, stats, shadow

vars == <<pc, pll, lut_reg, ctrl, drv, res, prev, stats, shadow>>

\* ------------------------------------------------------------------ bounds

\* Largest table size (frac_values[N]) a header declares.
MaxLut == 3

\* Largest number of control-loop iterations of one run.
MaxTicks == 4

\* ------------------------------------------------------------- arithmetic

CntDen == 2

GainDen == 2

ErrDen == CntDen * GainDen

Abs(x) == IF x < 0 THEN -x ELSE x

\* A mutant of Trunc: rounds towards minus infinity (math.floor) instead.
TruncFloor(x, d) == x \div d

\* Python's int() of the float x/d: truncation towards zero.
Trunc(x, d) == IF x >= 0 THEN x \div d ELSE -((-x) \div d)

\* A mutant of np_clip: no clamping at all.
np_clip_none(x, lo, hi) == x

\* numpy.clip(x, lo, hi) = minimum(maximum(x, lo), hi); hi wins when lo > hi.
np_clip(x, lo, hi) ==
    LET m == IF x < lo THEN lo ELSE x
    IN  IF m > hi THEN hi ELSE m

\* a/b <= c/d and a/b = c/d for frequencies with positive denominators.
FreqLeq(a, b) == a[1] * b[2] <= b[1] * a[2]

FreqEq(a, b) == a[1] * b[2] = b[1] * a[2]

\* output_frequency = None
FreqNone == <<0, 0>>

PyInt(v) == [v |-> v, int |-> TRUE]

PyFloat(v) == [v |-> v, int |-> FALSE]

\* ------------------------------------------------------ app_pll_frac_calc

\* Datasheet limits of the VCO (intermediate) frequency, in MHz.
VcoMin == 360

VcoMax == 1800

FMax == 8191

RMax == 63

ODMax == 7

\* The xtal of the simulation, in MHz.
xtal_frequency == 24

\* A mutant of calc_frequency_asserts: accepts f = p (>= for >) and F = 0.
calc_frequency_asserts_weak(self) ==
    /\ self.F.v >= 0 /\ self.F.v <= FMax
    /\ self.F.int
    /\ self.R.v >= 0 /\ self.R.v <= RMax
    /\ self.R.int
    /\ self.OD.v >= 0 /\ self.OD.v <= ODMax
    /\ self.OD.int
    /\ self.input_frequency * (self.F.v + 1) >= VcoMin * 2 * (self.R.v + 1)
    /\ self.input_frequency * (self.F.v + 1) <= VcoMax * 2 * (self.R.v + 1)
    /\ self.p.int
    /\ self.f.int
    /\ self.p.v >= self.f.v

\* The assert statements of calc_frequency, all of which must pass.  The VCO
\* test is reached only with R + 1 > 0, so it is cross-multiplied.
calc_frequency_asserts(self) ==
    /\ self.F.v >= 1 /\ self.F.v <= FMax
    /\ self.F.int
    /\ self.R.v >= 0 /\ self.R.v <= RMax
    /\ self.R.int
    /\ self.OD.v >= 0 /\ self.OD.v <= ODMax
    /\ self.OD.int
    /\ self.input_frequency * (self.F.v + 1) >= VcoMin * 2 * (self.R.v + 1)
    /\ self.input_frequency * (self.F.v + 1) <= VcoMax * 2 * (self.R.v + 1)
    /\ self.p.int
    /\ self.f.int
    /\ self.p.v > self.f.v

\* input * (F + 1 + (f+1)/(p+1)) / 2 / (R+1) / (OD+1) / (2 * (ACD+1)) as one
\* fraction.
pll_formula(input_frequency, F, R, OD, ACD, f, p) ==
    << input_frequency * ((F + 1) * (p + 1) + (f + 1)),
       (p + 1) * 4 * (R + 1) * (OD + 1) * (ACD + 1) >>

\* calc_frequency: the exception it raises ("none" when it returns) and the
\* object afterwards.  A failed assert or a division by zero leaves
\* output_frequency as it was.
calc_frequency(self) ==
    IF ~calc_frequency_asserts(self)
    THEN [exc |-> "AssertionError", self |-> self]
    ELSE IF self.p.v + 1 = 0 \/ self.ACD + 1 = 0
    THEN [exc |-> "ZeroDivisionError", self |-> self]
    ELSE [exc |-> "none",
          self |-> [self EXCEPT !.output_frequency =
                        pll_formula(self.input_frequency, self.F.v, self.R.v,
                                    self.OD.v, self.ACD, self.f.v, self.p.v)]]

\* app_pll_frac_calc.__init__
app_pll_frac_calc_init(input_frequency, F, R, OD, ACD, f, p) ==
    calc_frequency([input_frequency |-> input_frequency, F |-> F, R |-> R,
                    OD |-> OD, ACD |-> ACD, f |-> f, p |-> p,
                    output_frequency |-> FreqNone])

update_pll_all(self, F, R, OD, ACD, f, p) ==
    calc_frequency([self EXCEPT !.F = F, !.R = R, !.OD = OD, !.ACD = ACD,
                                !.f = f, !.p = p])

\* A mutant of update_pll_frac: also resets the application-clock divider.
update_pll_frac_resets_ACD(self, f, p) ==
    calc_frequency([self EXCEPT !.f = f, !.p = p, !.ACD = 0])

update_pll_frac(self, f, p) ==
    calc_frequency([self EXCEPT !.f = f, !.p = p])

\* ------------------------------------------------------- parse_lut_h_file

\* lut = np.zeros(num_entries), then lut[idx] = reg for every table line, in
\* file order; an index beyond the table raises IndexError.
RECURSIVE parse_lines(_, _)
parse_lines(lut, lines) ==
    IF lines = <<>>
    THEN [exc |-> "none", lut |-> lut]
    ELSE IF Head(lines).idx >= Len(lut)
    THEN [exc |-> "IndexError", lut |-> lut]
    ELSE parse_lines([lut EXCEPT ![Head(lines).idx + 1] = Head(lines).reg],
                     Tail(lines))

\* parse_lut_h_file.__init__ on a header that declares frac_values[num_entries]
\* and then lists the lines <<[reg, idx], ...>>.
parse_lut_h_file_init(header) ==
    parse_lines([i \in 1..header.num_entries |-> 0], header.lines)

get_lut_size(lut) == Len(lut)

\* ------------------------------------------ error_to_pll_output_frequency

\* A mutant of reg_to_frac: the two bytes swapped.
reg_to_frac_swapped(register) ==
    [f |-> register % 256, p |-> (register \div 256) % 256]

\* f = (register & 0xff00) >> 8, p = register & 0xff
reg_to_frac(register) ==
    [f |-> (register \div 256) % 256, p |-> register % 256]

\* A mutant of set_point_of: the error added (positive feedback).
set_point_of_plus(num_entries, error) ==
    num_entries \div 2 + Trunc(error, ErrDen)

\* set_point = num_entries // 2 - int(error), error in units of 1/ErrDen.
set_point_of(num_entries, error) ==
    num_entries \div 2 - Trunc(error, ErrDen)

\* A mutant of clamp_set_point: > for >= at the upper end of the table.
clamp_set_point_off_by_one(set_point, num_entries) ==
    IF set_point < 0
    THEN [set_point |-> 0, lock_status |-> -1]
    ELSE IF set_point > num_entries
    THEN [set_point |-> num_entries - 1, lock_status |-> 1]
    ELSE [set_point |-> set_point, lock_status |-> 0]

\* The if / elif / else that clamps set_point and sets lock_status.
clamp_set_point(set_point, num_entries) ==
    IF set_point < 0
    THEN [set_point |-> 0, lock_status |-> -1]
    ELSE IF set_point >= num_entries
    THEN [set_point |-> num_entries - 1, lock_status |-> 1]
    ELSE [set_point |-> set_point, lock_status |-> 0]

\* lut[i] of a numpy array: i in -n..n-1, a negative i counting from the end.
lut_index_ok(lut, i) == i >= -Len(lut) /\ i < Len(lut)

lut_at(lut, i) == IF i >= 0 THEN lut[i + 1] ELSE lut[Len(lut) + i + 1]

\* A mutant of get_output_freqency_from_error: returns the frequency held
\* before update_pll_frac ran, the one the call before it left behind.
get_output_freqency_from_error_stale(self, lut, error) ==
    LET c  == clamp_set_point(set_point_of(Len(lut), error), Len(lut))
        fp == reg_to_frac(lut_at(lut, c.set_point))
        u  == update_pll_frac(self, PyInt(fp.f), PyInt(fp.p))
    IN  IF ~lut_index_ok(lut, c.set_point)
        THEN [exc |-> "IndexError", set_point |-> c.set_point,
              lock_status |-> c.lock_status, freq |-> FreqNone, self |-> self]
        ELSE [exc |-> u.exc, set_point |-> c.set_point,
              lock_status |-> c.lock_status,
              freq |-> IF u.exc = "none" THEN self.output_frequency
                       ELSE FreqNone,
              self |-> u.self]

\* get_output_freqency_from_error: the exception ("none" when it returns),
\* the clamped set_point, the lock status, the returned frequency and the
\* frequency-model object afterwards.
get_output_freqency_from_error(self, lut, error) ==
    LET c  == clamp_set_point(set_point_of(Len(lut), error), Len(lut))
        fp == reg_to_frac(lut_at(lut, c.set_point))
        u  == update_pll_frac(self, PyInt(fp.f), PyInt(fp.p))
    IN  IF ~lut_index_ok(lut, c.set_point)
        THEN [exc |-> "IndexError", set_point |-> c.set_point,
              lock_status |-> c.lock_status, freq |-> FreqNone, self |-> self]
        ELSE [exc |-> u.exc, set_point |-> c.set_point,
              lock_status |-> c.lock_status,
              freq |-> IF u.exc = "none" THEN u.self.output_frequency
                       ELSE FreqNone,
              self |-> u.self]

\* One "register = int(lut[i]); f, p = reg_to_frac; update_pll_frac" step of
\* get_stats.
stats_step(self, lut, i) ==
    LET fp == reg_to_frac(lut_at(lut, i))
    IN  update_pll_frac(self, PyInt(fp.f), PyInt(fp.p))

\* get_stats: min, mid and max frequency (entries 0, steps // 2 and -1) and
\* the number of steps; the first failing update ends the call.
get_stats(self, lut) ==
    LET steps == Len(lut)
        none  == [min_freq |-> FreqNone, mid_freq |-> FreqNone,
                  max_freq |-> FreqNone, steps |-> steps]
        a == stats_step(self, lut, 0)
        b == stats_step(a.self, lut, steps \div 2)
        c == stats_step(b.self, lut, -1)
    IN  IF a.exc # "none" THEN [exc |-> a.exc, self |-> a.self, out |-> none]
        ELSE IF b.exc # "none" THEN [exc |-> b.exc, self |-> b.self, out |-> none]
        ELSE IF c.exc # "none" THEN [exc |-> c.exc, self |-> c.self, out |-> none]
        ELSE [exc |-> "none", self |-> c.self,
              out |-> [min_freq |-> a.self.output_frequency,
                       mid_freq |-> b.self.output_frequency,
                       max_freq |-> c.self.output_frequency,
                       steps |-> steps]]

\* ------------------------------------------------------------------ state

\* pc: "new" before construction, "ok" once the objects exist, "failed" when
\* the constructor raised.

NoPll ==
    [input_frequency |-> 0, F |-> PyInt(0), R |-> PyInt(0), OD |-> PyInt(0),
     ACD |-> 0, f |-> PyInt(0), p |-> PyInt(0), output_frequency |-> FreqNone]

NoCtrl ==
    [mclk_count_old |-> 0, ref_clk_count |-> 0, ref_to_loop_call_rate |-> 0,
     expected_mclk_count_inc_float |-> 0, expected_mclk_count_float |-> 0,
     Kp |-> 0, Ki |-> 0, Kii |-> 0,
     error_accum |-> 0, error_accum_accum |-> 0, error |-> 0,
     i_windup_limit |-> 0, ii_windup_limit |-> 0, verbose |-> FALSE]

\* The outcome of the last call: the operation, the exception it raised
\* ("none" when it returned), its arguments, the locals of do_control and the
\* returned (frequency, lock status).
NoRes ==
    [op |-> "none", exc |-> "none", error |-> 0, set_point |-> 0,
     lock_status |-> 0, freq |-> FreqNone,
     mclk_count_float |-> 0, period_fraction |-> [num |-> 1, den |-> 1],
     mclk_count_inc |-> 0, raw_error |-> 0,
     error_p |-> 0, error_i |-> 0, error_ii |-> 0]

\* The call of get_output_freqency_from_error before the last one.
NoPrev ==
    [valid |-> FALSE, exc |-> "none", error |-> 0, set_point |-> 0,
     freq |-> FreqNone]

NoStats ==
    [valid |-> FALSE, min_freq |-> FreqNone, mid_freq |-> FreqNone,
     max_freq |-> FreqNone, steps |-> 0]

\* The loop that calls do_control: the calls made, the ticks among them that
\* got past the division, whether every tick so far saw the same raw error,
\* and the driver's own running count.
NoDrv ==
    [calls |-> 0, ticks |-> 0, constant_error |-> TRUE, last_error |-> 0,
     mclk_pt |-> 0]

NoShadow == [ctrl |-> NoCtrl, res |-> NoRes]

InitNew ==
    /\ pc = "new"
    /\ pll = NoPll
    /\ lut_reg = <<>>
    /\ ctrl = NoCtrl
    /\ drv = NoDrv
    /\ res = NoRes
    /\ prev = NoPrev
    /\ stats = NoStats
    /\ shadow = NoShadow

\* ------------------------------------------------------------ sw_pll_ctrl

\* A mutant of windup_limit: the table size times the gain.
windup_limit_times(lut_size, K) ==
    IF K # 0 THEN (ErrDen * lut_size * K) \div GainDen ELSE 0

\* lut_size / K if K != 0.0 else 0.0, with K in units of 1/GainDen and the
\* limit in units of 1/ErrDen (the gains of the model divide exactly).
windup_limit(lut_size, K) ==
    IF K # 0 THEN (ErrDen * lut_size * GainDen) \div K ELSE 0

\* sw_pll_ctrl.__init__; multiplier is in units of 1/CntDen.  ref_clk_count
\* starts from init_mclk_count, as the code has it.
sw_pll_ctrl_init(lut_size, multiplier, rate, Kp, Ki, Kii, init_mclk_count, verbose) ==
    [mclk_count_old |-> init_mclk_count,
     ref_clk_count |-> init_mclk_count,
     ref_to_loop_call_rate |-> rate,
     expected_mclk_count_inc_float |-> multiplier * rate,
     expected_mclk_count_float |-> 0,
     Kp |-> Kp, Ki |-> Ki, Kii |-> Kii,
     error_accum |-> 0, error_accum_accum |-> 0, error |-> 0,
     i_windup_limit |-> windup_limit(lut_size, Ki),
     ii_windup_limit |-> windup_limit(lut_size, Kii),
     verbose |-> verbose]

\* A mutant of raw_error_of: the expected increment is not truncated.
raw_error_of_untruncated(mclk_count_inc, expected_inc) ==
    mclk_count_inc - expected_inc

\* error = mclk_count_inc - int(self.expected_mclk_count_inc_float)
raw_error_of(mclk_count_inc, expected_inc) ==
    mclk_count_inc - CntDen * Trunc(expected_inc, CntDen)

\* A mutant of control_terms: the accumulator itself is clamped to the windup
\* limit.
control_terms_clamped_accum(self, mclk_count_float, period_fraction) ==
    LET mclk_count_int == Trunc(mclk_count_float, CntDen)
        mclk_count_inc ==
            ((mclk_count_int - self.mclk_count_old) * CntDen
                * period_fraction.den) \div period_fraction.num
        error    == raw_error_of(mclk_count_inc,
                                 self.expected_mclk_count_inc_float)
        accum    == np_clip(self.error_accum + error,
                            -self.i_windup_limit, self.i_windup_limit)
        accum2   == self.error_accum_accum + accum
        error_p  == self.Kp * error
        error_i  == np_clip(self.Ki * accum,
                            -self.i_windup_limit, self.i_windup_limit)
        error_ii == np_clip(self.Kii * accum2,
                            -self.ii_windup_limit, self.ii_windup_limit)
    IN  [self |-> [self EXCEPT
                     !.mclk_count_old = mclk_count_int,
                     !.expected_mclk_count_float =
                         @ + self.expected_mclk_count_inc_float,
                     !.ref_clk_count = @ + self.ref_to_loop_call_rate,
                     !.error_accum = accum,
                     !.error_accum_accum = accum2,
                     !.error = error_p + error_i + error_ii],
         mclk_count_inc |-> mclk_count_inc, raw_error |-> error,
         error_p |-> error_p, error_i |-> error_i, error_ii |-> error_ii]

\* do_control up to "self.error = ...": the controller afterwards and the
\* locals.  period_fraction is [num, den], not zero; the model's period
\* fractions divide exactly.
control_terms(self, mclk_count_float, period_fraction) ==
    LET mclk_count_int == Trunc(mclk_count_float, CntDen)
        mclk_count_inc ==
            ((mclk_count_int - self.mclk_count_old) * CntDen
                * period_fraction.den) \div period_fraction.num
        error    == raw_error_of(mclk_count_inc,
                                 self.expected_mclk_count_inc_float)
        accum    == self.error_accum + error
        accum2   == self.error_accum_accum + accum
        error_p  == self.Kp * error
        error_i  == np_clip(self.Ki * accum,
                            -self.i_windup_limit, self.i_windup_limit)
        error_ii == np_clip(self.Kii * accum2,
                            -self.ii_windup_limit, self.ii_windup_limit)
    IN  [self |-> [self EXCEPT
                     !.mclk_count_old = mclk_count_int,
                     !.expected_mclk_count_float =
                         @ + self.expected_mclk_count_inc_float,
                     !.ref_clk_count = @ + self.ref_to_loop_call_rate,
                     !.error_accum = accum,
                     !.error_accum_accum = accum2,
                     !.error = error_p + error_i + error_ii],
         mclk_count_inc |-> mclk_count_inc, raw_error |-> error,
         error_p |-> error_p, error_i |-> error_i, error_ii |-> error_ii]

\* A mutant of do_control: self.mclk_count_old is stored before the division.
do_control_stores_first(self, mapper, lut, mclk_count_float, period_fraction) ==
    LET pre == [NoRes EXCEPT !.op = "do_control",
                             !.mclk_count_float = mclk_count_float,
                             !.period_fraction = period_fraction]
    IN  IF period_fraction.num = 0
        THEN [self |-> [self EXCEPT !.mclk_count_old =
                                     Trunc(mclk_count_float, CntDen)],
              mapper |-> mapper,
              res |-> [pre EXCEPT !.exc = "ZeroDivisionError"]]
        ELSE
          LET t    == control_terms(self, mclk_count_float, period_fraction)
              r    == get_output_freqency_from_error(mapper, lut, t.self.error)
              done == [pre EXCEPT !.mclk_count_inc = t.mclk_count_inc,
                                  !.raw_error = t.raw_error,
                                  !.error_p = t.error_p,
                                  !.error_i = t.error_i,
                                  !.error_ii = t.error_ii,
                                  !.error = t.self.error]
          IN  IF self.verbose
              THEN [self |-> t.self, mapper |-> mapper,
                    res |-> [done EXCEPT !.exc = "AttributeError"]]
              ELSE [self |-> t.self, mapper |-> r.self,
                    res |-> [done EXCEPT !.exc = r.exc,
                                         !.set_point = r.set_point,
                                         !.lock_status = r.lock_status,
                                         !.freq = r.freq]]

\* do_control: the exception ("none" when it returns), the controller and the
\* frequency model afterwards, the locals and the returned pair.
\*   - period_fraction = 0 raises ZeroDivisionError before anything is stored;
\*   - verbose = True raises AttributeError at the second print, which reads
\*     self.expected_mclk_count, an attribute the class never sets;
\*   - otherwise lut_lookup_function(self.error) decides.
do_control(self, mapper, lut, mclk_count_float, period_fraction) ==
    LET pre == [NoRes EXCEPT !.op = "do_control",
                             !.mclk_count_float = mclk_count_float,
                             !.period_fraction = period_fraction]
    IN  IF period_fraction.num = 0
        THEN [self |-> self, mapper |-> mapper,
              res |-> [pre EXCEPT !.exc = "ZeroDivisionError"]]
        ELSE
          LET t    == control_terms(self, mclk_count_float, period_fraction)
              r    == get_output_freqency_from_error(mapper, lut, t.self.error)
              done == [pre EXCEPT !.mclk_count_inc = t.mclk_count_inc,
                                  !.raw_error = t.raw_error,
                                  !.error_p = t.error_p,
                                  !.error_i = t.error_i,
                                  !.error_ii = t.error_ii,
                                  !.error = t.self.error]
          IN  IF self.verbose
              THEN [self |-> t.self, mapper |-> mapper,
                    res |-> [done EXCEPT !.exc = "AttributeError"]]
              ELSE [self |-> t.self, mapper |-> r.self,
                    res |-> [done EXCEPT !.exc = r.exc,
                                         !.set_point = r.set_point,
                                         !.lock_status = r.lock_status,
                                         !.freq = r.freq]]

\* ------------------------------------- the frequency model on its own

\* Register fields a caller may pass: in range, at and beyond each limit, and a
\* float where the code insists on an int.
FArgs == {PyInt(0), PyInt(1), PyInt(29), PyInt(150), PyInt(FMax),
          PyInt(FMax + 1), PyFloat(29)}

RArgs == {PyInt(-1), PyInt(0), PyInt(RMax), PyInt(RMax + 1), PyFloat(0)}

ODArgs == {PyInt(-1), PyInt(0), PyInt(ODMax), PyInt(ODMax + 1), PyFloat(0)}

ACDArgs == {-1, 0, 1}

FracArgs == {PyInt(-2), PyInt(-1), PyInt(0), PyInt(1), PyFloat(1)}

InputArgs == {xtal_frequency, VcoMin}

NewAppPllFracCalc ==
    /\ pc = "new"
    /\ \E input \in InputArgs, F \in FArgs, R \in RArgs, OD \in ODArgs,
          ACD \in ACDArgs, f \in FracArgs, p \in FracArgs :
          LET r == app_pll_frac_calc_init(input, F, R, OD, ACD, f, p)
          IN  /\ pll' = r.self
              /\ pc' = IF r.exc = "none" THEN "ok" ELSE "failed"
              /\ res' = [NoRes EXCEPT !.op = "__init__", !.exc = r.exc]
    /\ UNCHANGED <<lut_reg, ctrl, drv, prev, stats, shadow>>

UpdatePllFrac ==
    /\ pc = "ok"
    /\ \E f \in FracArgs, p \in FracArgs :
          LET r == update_pll_frac(pll, f, p)
          IN  /\ pll' = r.self
              /\ res' = [NoRes EXCEPT !.op = "update_pll_frac", !.exc = r.exc]
    /\ UNCHANGED <<pc, lut_reg, ctrl, drv, prev, stats, shadow>>

UpdatePllAll ==
    /\ pc = "ok"
    /\ \E F \in {PyInt(0), PyInt(29)}, R \in {PyInt(0)}, OD \in {PyInt(ODMax)},
          ACD \in {-1, 1}, f \in {PyInt(0)}, p \in {PyInt(1)} :
          LET r == update_pll_all(pll, F, R, OD, ACD, f, p)
          IN  /\ pll' = r.self
              /\ res' = [NoRes EXCEPT !.op = "update_pll_all", !.exc = r.exc]
    /\ UNCHANGED <<pc, lut_reg, ctrl, drv, prev, stats, shadow>>

NextPll == NewAppPllFracCalc \/ UpdatePllFrac \/ UpdatePllAll

SpecPll == InitNew /\ [][NextPll]_vars

\* ------------------------------------------------- the mapper on its own

\* Packed (f, p) registers a header lists: 0x0003 and 0x0203, the fractions
\* 1/4 and 3/4.  An index no line names keeps the 0 of np.zeros.
LutRegs == {3, 512 + 3}

\* The headers of at most MaxLut table lines, any index (one past the table
\* included) on any line.
Headers ==
    UNION { UNION { { [num_entries |-> n, lines |-> l] :
                        l \in [1..k -> [reg : LutRegs, idx : 0..n]] } :
                    k \in 0..n } :
            n \in 1..MaxLut }

\* The fixed fields of the simulated PLL (24 MHz xtal, VCO at 1200 MHz).
SimPll == [F |-> PyInt(99), R |-> PyInt(0), OD |-> PyInt(4), ACD |-> 4,
           f |-> PyInt(0), p |-> PyInt(3)]

\* error_to_pll_output_frequency.__init__: the frequency model, then the
\* table; either may raise.
error_to_pll_output_frequency_init(header) ==
    LET a == app_pll_frac_calc_init(xtal_frequency, SimPll.F, SimPll.R,
                                    SimPll.OD, SimPll.ACD, SimPll.f, SimPll.p)
        t == parse_lut_h_file_init(header)
    IN  [exc |-> IF a.exc # "none" THEN a.exc ELSE t.exc,
         self |-> a.self, lut |-> t.lut]

\* Errors passed to the mapper: every half from beyond one end of the table to
\* beyond the other (set_point leaves 0..n-1 once |error| >= n/2 + 1).
ErrorArgs(n) == { k * GainDen : k \in (-(n + 3))..(n + 3) }

NewMapper ==
    /\ pc = "new"
    /\ \E header \in Headers :
          LET r == error_to_pll_output_frequency_init(header)
          IN  /\ pll' = r.self
              /\ lut_reg' = IF r.exc = "none" THEN r.lut ELSE <<>>
              /\ pc' = IF r.exc = "none" THEN "ok" ELSE "failed"
              /\ res' = [NoRes EXCEPT !.op = "__init__", !.exc = r.exc]
    /\ UNCHANGED <<ctrl, drv, prev, stats, shadow>>

\* What a mapper call leaves for the next one to be compared with.
remember(r, old) ==
    IF r.op = "get_output_freqency_from_error"
    THEN [valid |-> TRUE, exc |-> r.exc, error |-> r.error,
          set_point |-> r.set_point, freq |-> r.freq]
    ELSE old

GetOutputFreqencyFromError ==
    /\ pc = "ok"
    /\ \E error \in ErrorArgs(Len(lut_reg)) :
          LET r == get_output_freqency_from_error(pll, lut_reg, error)
          IN  /\ pll' = r.self
              /\ res' = [NoRes EXCEPT !.op = "get_output_freqency_from_error",
                                      !.exc = r.exc, !.error = error,
                                      !.set_point = r.set_point,
                                      !.lock_status = r.lock_status,
                                      !.freq = r.freq]
    /\ prev' = remember(res, prev)
    /\ UNCHANGED <<pc, lut_reg, ctrl, drv, stats, shadow>>

GetStats ==
    /\ pc = "ok"
    /\ LET r == get_stats(pll, lut_reg)
       IN  /\ pll' = r.self
           /\ res' = [NoRes EXCEPT !.op = "get_stats", !.exc = r.exc]
           /\ stats' = IF r.exc = "none"
                       THEN [valid |-> TRUE, min_freq |-> r.out.min_freq,
                             mid_freq |-> r.out.mid_freq,
                             max_freq |-> r.out.max_freq, steps |-> r.out.steps]
                       ELSE stats
    /\ prev' = remember(res, prev)
    /\ UNCHANGED <<pc, lut_reg, ctrl, drv, shadow>>

NextMapper == NewMapper \/ GetOutputFreqencyFromError \/ GetStats

SpecMapper == InitNew /\ [][NextMapper]_vars

\* ------------------------------------------------------ the control loop

\* A generated table of n entries, f = index and p = 7 (fractions 1/8, 2/8,
\* ...), as fractions.h lists it; hole is an index the file leaves out (-1
\* for none).
SimHeader(n, hole) ==
    [num_entries |-> n,
     lines |-> SelectSeq([i \in 1..n |-> [reg |-> 256 * (i - 1) + 7,
                                          idx |-> i - 1]],
                         LAMBDA l : l.idx # hole)]

\* (Kp, Ki, Kii) in units of 1/GainDen: no gain at all, the I-only loop of the
\* test (0, 1, 0), the PI loop of run_sim with Ki = 2, a PI loop with Ki below
\* 1, and two PII loops.
SimGains == { <<0, 0, 0>>, <<0, 2, 0>>, <<1, 4, 0>>, <<1, 1, 0>>,
              <<0, 2, 4>>, <<1, 0, 1>> }

\* How the objects are built: the whole table or the table without its
\* entry 0, and the controller quiet or (with the whole table) verbose.
SimBuilds == { [hole |-> -1, verbose |-> FALSE], [hole |-> 0, verbose |-> FALSE],
               [hole |-> -1, verbose |-> TRUE] }

\* The loop of the model: 1.5 counts expected per call, one reference clock
\* per call.
SimLoop == [multiplier |-> 3, ref_to_loop_call_rate |-> 1]

\* The measured count of a call, relative to the nominal one (in units of
\* 1/CntDen): 2.5 short, on time, 1.5 over.
CountSteps == {-5, 0, 3}

PeriodFractions ==
    { [num |-> 0, den |-> 1], [num |-> 1, den |-> 1], [num |-> 2, den |-> 1] }

\* The objects of __main__ and run_sim after construction.
Init ==
    /\ pc = "ok"
    /\ \E n \in 1..MaxLut, b \in SimBuilds, g \in SimGains :
          LET m == error_to_pll_output_frequency_init(SimHeader(n, b.hole))
              verbose == b.verbose
          IN  /\ pll = m.self
              /\ lut_reg = m.lut
              /\ ctrl = sw_pll_ctrl_init(get_lut_size(m.lut), SimLoop.multiplier,
                                         SimLoop.ref_to_loop_call_rate,
                                         g[1], g[2], g[3], 0, verbose)
    /\ drv = NoDrv
    /\ res = NoRes
    /\ prev = NoPrev
    /\ stats = NoStats
    /\ shadow = NoShadow

\* The driver after a call: a call that raised at the division is no tick.
drive(d, r) ==
    IF r.exc = "ZeroDivisionError"
    THEN [d EXCEPT !.calls = @ + 1]
    ELSE [d EXCEPT !.calls = @ + 1,
                   !.ticks = @ + 1,
                   !.constant_error =
                       d.ticks = 0 \/ (@ /\ r.raw_error = d.last_error),
                   !.last_error = r.raw_error]

\* One iteration of the loop: a measured count near the nominal one and a
\* period fraction, handed to do_control.
DoControl ==
    /\ pc = "ok"
    /\ drv.calls < MaxTicks
    /\ \E step \in CountSteps, period_fraction \in PeriodFractions :
          LET nominal == ctrl.mclk_count_old
                           + Trunc(ctrl.expected_mclk_count_inc_float, CntDen)
              r == do_control(ctrl, pll, lut_reg, CntDen * nominal + step,
                              period_fraction)
          IN  /\ ctrl' = r.self
              /\ pll' = r.mapper
              /\ res' = r.res
              /\ drv' = drive(drv, r.res)
    /\ UNCHANGED <<pc, lut_reg, prev, stats, shadow>>

Next == DoControl

Spec == Init /\ [][Next]_vars

\* ------------------------------------- the loop with a wrapping counter

\* The test's driver reduces its running count modulo 2**16.
CountModulus == 65536

\* The wrapping loop: 24576 counts expected per call, so the reduced count
\* wraps on the third call.
WrapLoop == [multiplier |-> 2 * 24576, ref_to_loop_call_rate |-> 1]

\* What the driver adds to its running count per call, relative to the
\* expected increment (in units of 1/CntDen).
WrapSteps == {-2, 0, 1, 3}

InitWrap ==
    /\ pc = "ok"
    /\ \E n \in 1..MaxLut, g \in SimGains :
          LET m == error_to_pll_output_frequency_init(SimHeader(n, -1))
              c == sw_pll_ctrl_init(get_lut_size(m.lut), WrapLoop.multiplier,
                                    WrapLoop.ref_to_loop_call_rate,
                                    g[1], g[2], g[3], 0, FALSE)
          IN  /\ pll = m.self
              /\ lut_reg = m.lut
              /\ ctrl = c
              /\ shadow = [ctrl |-> c, res |-> NoRes]
    /\ drv = NoDrv
    /\ res = NoRes
    /\ prev = NoPrev
    /\ stats = NoStats

\* int(mclk_pt % 2**16) of the driver's float count.
reduced_count(mclk_pt) == Trunc(mclk_pt % (CntDen * CountModulus), CntDen)

\* One iteration of the test's loop: the running count advances by less than
\* the modulus and do_control gets int(mclk_pt % 2**16).  shadow is a second
\* controller, built alike, that gets the unreduced int(mclk_pt).
DoControlWrapped ==
    /\ pc = "ok"
    /\ drv.calls < MaxTicks
    /\ \E step \in WrapSteps :
          LET mclk_pt == drv.mclk_pt + ctrl.expected_mclk_count_inc_float + step
              one == [num |-> 1, den |-> 1]
              r == do_control(ctrl, pll, lut_reg,
                              CntDen * reduced_count(mclk_pt), one)
              u == do_control(shadow.ctrl, pll, lut_reg,
                              CntDen * Trunc(mclk_pt, CntDen), one)
          IN  /\ ctrl' = r.self
              /\ pll' = r.mapper
              /\ res' = r.res
              /\ shadow' = [ctrl |-> u.self, res |-> u.res]
              /\ drv' = [drive(drv, r.res) EXCEPT !.mclk_pt = mclk_pt]
    /\ UNCHANGED <<pc, lut_reg, prev, stats>>

NextWrap == DoControlWrapped

SpecWrap == InitWrap /\ [][NextWrap]_vars

\* ---------------------------------------------------------------- C7

PllOp == res.op \in {"__init__", "update_pll_frac", "update_pll_all"}

\* The conditions the specification lists for a valid frequency-model object.
C7_ListedConditions ==
    /\ pll.F.int /\ pll.F.v >= 1 /\ pll.F.v <= 8191
    /\ pll.R.int /\ pll.R.v >= 0 /\ pll.R.v <= 63
    /\ pll.OD.int /\ pll.OD.v >= 0 /\ pll.OD.v <= 7
    /\ pll.f.int /\ pll.p.int /\ pll.f.v < pll.p.v
    /\ pll.input_frequency * (pll.F.v + 1) >= 360 * 2 * (pll.R.v + 1)
    /\ pll.input_frequency * (pll.F.v + 1) <= 1800 * 2 * (pll.R.v + 1)

\* output_frequency is input*(F+1+(f+1)/(p+1))/2/(R+1)/(OD+1)/(2*(ACD+1)).
C7_OutputIsFormula ==
    LET whole == pll.input_frequency * (pll.F.v + 1) * (pll.p.v + 1)
        frac  == pll.input_frequency * (pll.f.v + 1)
        div   == 2 * (pll.R.v + 1) * (pll.OD.v + 1) * (2 * (pll.ACD + 1))
    IN  /\ pll.output_frequency[2] # 0
        /\ pll.output_frequency = <<whole + frac, div * (pll.p.v + 1)>>

\* C7 as stated: construction, and every later calc_frequency, fails unless the
\* listed conditions on F, R, OD, f, p and the VCO frequency hold, and
\* whenever they hold it succeeds and sets output_frequency to the formula.
C7_ValidationAsStated ==
    PllOp => /\ (res.exc = "none") <=> C7_ListedConditions
             /\ C7_ListedConditions => C7_OutputIsFormula

\* C7 as amended: the call succeeds exactly when the listed conditions hold
\* and neither divisor of the formula is zero (ACD # -1 and p # -1); it then
\* sets output_frequency to the formula, and fails otherwise.
C7_Validation ==
    PllOp => /\ (res.exc = "none")
                   <=> (C7_ListedConditions /\ pll.ACD # -1 /\ pll.p.v # -1)
             /\ res.exc = "none" => C7_OutputIsFormula

\* A construction that succeeds with F at its upper limit.
C7_Witness ==
    /\ res.op = "__init__" /\ res.exc = "none"
    /\ pll.F.v = 8191 /\ pll.output_frequency # FreqNone

\* ------------------------------------------------------- C1, C4, C5, C6

MapperOp == res.op = "get_output_freqency_from_error"

\* The frequency the formula gives for the table entry of 0-based index i.
EntryFreq(i) ==
    pll_formula(pll.input_frequency, pll.F.v, pll.R.v, pll.OD.v, pll.ACD,
                lut_reg[i + 1] \div 256, lut_reg[i + 1] % 256)

\* The decoded frequency never decreases along the table.
LutMonotone ==
    \A i, j \in 0..(Len(lut_reg) - 1) :
        i <= j => FreqLeq(EntryFreq(i), EntryFreq(j))

\* C1: with set_point = n//2 - trunc(error), the mapper reads index 0 and
\* reports -1 when set_point < 0, reads index n-1 and reports 1 when
\* set_point >= n, and reads index set_point and reports 0 otherwise; the
\* index read is in 0..n-1, the status is one of -1, 0, 1, and a call that
\* returns returns the frequency of the register at that index.
C1_ClampAndStatus ==
    MapperOp =>
        LET n  == Len(lut_reg)
            t  == IF res.error >= 0 THEN res.error \div 4
                  ELSE -((-res.error) \div 4)
            sp == n \div 2 - t
        IN  /\ res.set_point \in 0..(n - 1)
            /\ res.lock_status \in {-1, 0, 1}
            /\ sp < 0 => res.set_point = 0 /\ res.lock_status = -1
            /\ sp >= n => res.set_point = n - 1 /\ res.lock_status = 1
            /\ (sp >= 0 /\ sp < n) => res.set_point = sp /\ res.lock_status = 0
            /\ res.exc # "IndexError"
            /\ 256 * pll.f.v + pll.p.v = lut_reg[res.set_point + 1]
            /\ res.exc = "none" => res.freq = EntryFreq(res.set_point)

\* A call that returned UNLOCKED_HIGH from the last entry of a table of
\* several entries.
C1_Witness ==
    /\ MapperOp /\ res.exc = "none"
    /\ Len(lut_reg) > 1
    /\ res.lock_status = 1 /\ res.set_point = Len(lut_reg) - 1

\* C4: of two calls on the same table, the one with the larger error never
\* selects the larger index, and on a table whose decoded frequency is
\* non-decreasing it never returns the higher frequency.
C4_NegativeFeedback ==
    (MapperOp /\ prev.valid) =>
        /\ prev.error <= res.error => res.set_point <= prev.set_point
        /\ res.error <= prev.error => prev.set_point <= res.set_point
        /\ (LutMonotone /\ res.exc = "none" /\ prev.exc = "none") =>
              /\ prev.error <= res.error => FreqLeq(res.freq, prev.freq)
              /\ res.error <= prev.error => FreqLeq(prev.freq, res.freq)

\* Two returned calls on a monotone table, the second with the larger error
\* and a strictly lower frequency.
C4_Witness ==
    /\ MapperOp /\ prev.valid /\ LutMonotone
    /\ res.exc = "none" /\ prev.exc = "none"
    /\ prev.error < res.error
    /\ res.set_point < prev.set_point
    /\ ~FreqLeq(prev.freq, res.freq)

\* C5: an error of magnitude below 1 (0 included) selects index size//2 with
\* status LOCKED, for odd and even sizes; the call that returns returns that
\* entry's frequency, which is the mid_freq get_stats reports.
C5_Midpoint ==
    (MapperOp /\ res.error > -4 /\ res.error < 4) =>
        /\ res.set_point = Len(lut_reg) \div 2
        /\ res.lock_status = 0
        /\ res.exc = "none" => res.freq = EntryFreq(Len(lut_reg) \div 2)
        /\ (res.exc = "none" /\ stats.valid) => res.freq = stats.mid_freq

\* A call with error -1/2 on a table of even size, after get_stats returned.
C5_Witness ==
    /\ MapperOp /\ res.exc = "none" /\ stats.valid
    /\ res.error = -2
    /\ Len(lut_reg) = 2
    /\ res.set_point = 1

\* C6 as stated: construction fails unless the table is monotone, so the
\* table of every constructed mapper has non-decreasing decoded frequency
\* over its full index range.
C6_MonotoneEnforcedAtBuild == pc = "ok" => LutMonotone

\* ------------------------------------------------------- C2, C3, C10

\* The last call was a do_control that got past the division, so the terms
\* of res are those of a tick.
TickDone == res.op = "do_control" /\ res.exc # "ZeroDivisionError"

\* After every tick |term_i| <= LUT_size/Ki and |term_ii| <= LUT_size/Kii,
\* both 0 for a zero gain; and while every tick since construction has had
\* the same non-zero raw error, term_i is exactly +LUT_size/Ki or -LUT_size/Ki
\* (the sign of the error) from the tick at which Ki * ticks * |error| reaches
\* LUT_size/Ki onwards.  (Gains and raw error in units of 1/2, terms in units
\* of 1/4.)
C2_Bounds ==
    TickDone =>
        LET n == Len(lut_reg)
        IN  /\ ctrl.Ki = 0 => res.error_i = 0
            /\ ctrl.Kii = 0 => res.error_ii = 0
            /\ ctrl.Ki # 0 => Abs(res.error_i) * ctrl.Ki <= 8 * n
            /\ ctrl.Kii # 0 => Abs(res.error_ii) * ctrl.Kii <= 8 * n
            /\ ( /\ drv.constant_error /\ res.raw_error # 0 /\ ctrl.Ki # 0
                 /\ ctrl.Ki * ctrl.Ki * drv.ticks * Abs(res.raw_error) >= 8 * n )
               => /\ Abs(res.error_i) * ctrl.Ki = 8 * n
                  /\ (res.error_i > 0) <=> (res.raw_error > 0)

\* From any state: a tick that repeats the raw error of the tick before it,
\* when that tick left term_i at the limit on the side of the error, leaves
\* term_i at that limit.
C2_Stays ==
    ( /\ TickDone /\ TickDone'
      /\ ctrl.Ki # 0 /\ res.raw_error # 0
      /\ res'.raw_error = res.raw_error
      /\ Abs(res.error_i) * ctrl.Ki = 8 * Len(lut_reg)
      /\ (res.error_i > 0) <=> (res.raw_error > 0) )
    => res'.error_i = res.error_i

\* C2: anti-windup.  The integral term fed into the total error satisfies
\* |term_i| <= LUT_size/Ki and the double-integral term |term_ii| <=
\* LUT_size/Kii in every reachable state (exactly 0 for a zero gain); under a
\* sustained constant non-zero raw error term_i reaches exactly +LUT_size/Ki or
\* -LUT_size/Ki and stays there on every later tick of that error.
C2_AntiWindup == [] C2_Bounds /\ [][C2_Stays]_vars

\* Three ticks of one non-zero raw error with term_i at its limit, under a
\* gain below 2 that did not saturate on the first tick.
C2_Witness ==
    /\ TickDone /\ drv.constant_error /\ drv.ticks >= 3
    /\ res.raw_error # 0
    /\ ctrl.Ki = 2
    /\ ctrl.Ki * Abs(res.raw_error) < 8 * Len(lut_reg)
    /\ Abs(res.error_i) * ctrl.Ki = 8 * Len(lut_reg)

\* C3 as stated: a do_control call with a non-zero period_fraction never
\* raises, whatever table and verbose setting the objects were built with.
C3_TicksNeverFail ==
    (res.op = "do_control" /\ res.period_fraction.num # 0) => res.exc = "none"

\* C10 as stated: for a non-zero gain neither clamped term exceeds LUT_size/2.
C10_HalfRangeAsStated ==
    TickDone =>
        /\ ctrl.Ki # 0 => Abs(res.error_i) <= 2 * Len(lut_reg)
        /\ ctrl.Kii # 0 => Abs(res.error_ii) <= 2 * Len(lut_reg)

\* C10 as amended: a clamped term stays within LUT_size/2 when its gain is at
\* least 2; under a non-zero gain below 2 it stays within LUT_size/gain and
\* can exceed LUT_size/2.
C10_HalfRange ==
    TickDone =>
        /\ ctrl.Ki >= 4 => Abs(res.error_i) <= 2 * Len(lut_reg)
        /\ ctrl.Kii >= 4 => Abs(res.error_ii) <= 2 * Len(lut_reg)
        /\ (ctrl.Ki # 0 /\ ctrl.Ki < 4) =>
               Abs(res.error_i) * ctrl.Ki <= 8 * Len(lut_reg)
        /\ (ctrl.Kii # 0 /\ ctrl.Kii < 4) =>
               Abs(res.error_ii) * ctrl.Kii <= 8 * Len(lut_reg)

\* A tick under Ki = 2 with term_i at exactly LUT_size/2, on a table of
\* several entries.
C10_Witness ==
    /\ TickDone
    /\ Len(lut_reg) > 1
    /\ ctrl.Ki = 4 /\ Abs(res.error_i) = 2 * Len(lut_reg)

\* ---------------------------------------------------------------- C8

\* C8 as stated: fed the count reduced modulo 2**16, with per-call increments
\* below the modulus, each tick computes the same count increment, raw error,
\* frequency and lock status as the controller fed the unreduced count.
C8_WrappingCountAccepted ==
    (res.op = "do_control" /\ shadow.res.op = "do_control") =>
        /\ res.mclk_count_inc = shadow.res.mclk_count_inc
        /\ res.raw_error = shadow.res.raw_error
        /\ res.exc = shadow.res.exc
        /\ res.lock_status = shadow.res.lock_status
        /\ res.freq = shadow.res.freq

\* ---------------------------------------------------------------- C11

\* C11: the result is derived fresh.  calc_frequency run again on the fields
\* a returned call left gives the frequency that call gave; a call of
\* get_output_freqency_from_error(e) returns the (frequency, lock status) and
\* leaves the (f, p) that the same call gives on a mapper just built from the
\* same table, whatever calls came before it; and a call with the error of
\* the mapper call before it raises or returns as that one did, with the
\* same index and the same frequency.
C11_NoHiddenState ==
    MapperOp =>
        LET again == calc_frequency(pll)
            built == app_pll_frac_calc_init(xtal_frequency, SimPll.F, SimPll.R,
                                            SimPll.OD, SimPll.ACD, SimPll.f,
                                            SimPll.p)
            first == get_output_freqency_from_error(built.self, lut_reg,
                                                    res.error)
        IN  /\ res.exc = "none" =>
                  /\ again.exc = "none"
                  /\ again.self.output_frequency = res.freq
                  /\ again.self = pll
            /\ first.exc = res.exc
            /\ first.freq = res.freq
            /\ first.lock_status = res.lock_status
            /\ first.self.f = pll.f /\ first.self.p = pll.p
            /\ (prev.valid /\ prev.error = res.error) =>
                  /\ prev.exc = res.exc
                  /\ prev.set_point = res.set_point
                  /\ prev.freq = res.freq

\* Two returned calls with one error, both LOCKED on the register 0x0203 and
\* both returning its frequency, not the frequency the mapper was built with.
C11_Witness ==
    /\ MapperOp /\ res.exc = "none"
    /\ prev.valid /\ prev.exc = "none"
    /\ prev.error = res.error /\ prev.freq = res.freq
    /\ pll.f.v = 2 /\ res.lock_status = 0
    /\ res.freq # pll_formula(xtal_frequency, 99, 0, 4, 4, 0, 3)

\* ---------------------------------------------------------------- C12

\* What C12 says of one step: the call that got past the division took
\* raw_error = (int(measured_count) - previous count) / period_fraction
\* - floor(expected_increment) from the count the state before it held, stored
\* int(measured_count) as the previous count, added expected_increment to
\* expected_count_float, added raw_error to error_accum and then the new
\* error_accum to error_accum_accum, and left expected_increment alone.
\* (Counts held as floats and raw errors in units of 1/2.)
C12_Tick ==
    (res'.op = "do_control" /\ res'.exc # "ZeroDivisionError") =>
        LET measured == res'.mclk_count_float
            count    == IF measured >= 0 THEN measured \div 2
                        ELSE -((-measured) \div 2)
            fraction == res'.period_fraction
            expected == ctrl.expected_mclk_count_inc_float
            raw      == (2 * (count - ctrl.mclk_count_old) * fraction.den)
                            \div fraction.num
                        - 2 * (expected \div 2)
        IN  /\ res'.raw_error = raw
            /\ ctrl'.mclk_count_old = count
            /\ ctrl'.expected_mclk_count_float =
                   ctrl.expected_mclk_count_float + expected
            /\ ctrl'.error_accum = ctrl.error_accum + raw
            /\ ctrl'.error_accum_accum =
                   ctrl.error_accum_accum + ctrl'.error_accum
            /\ ctrl'.expected_mclk_count_inc_float = expected

\* C12: each do_control tick consumes exactly one fresh measurement, in the
\* order raw error from the previous tick's count (the initial count on the
\* first tick), then the stored count and expected_count_float, then
\* error_accum and, from the updated error_accum, error_accum_accum; the
\* expected increment never changes after construction.
C12_TickOrder == [][C12_Tick]_vars

\* A second or later tick, with period fraction 2 and a non-zero raw error,
\* after which neither integral equals the raw error or the other integral.
C12_Witness ==
    /\ TickDone /\ drv.ticks >= 2
    /\ res.period_fraction.num = 2
    /\ res.raw_error # 0
    /\ ctrl.error_accum # res.raw_error
    /\ ctrl.error_accum # 0
    /\ ctrl.error_accum_accum # ctrl.error_accum

\* ---------------------------------------------------------------- C13

\* Decoding is bit-exact over the whole 16-bit register.
C13_DecodeExact ==
    \A f \in 0..255, p \in 0..255 :
        reg_to_frac(256 * f + p) = [f |-> f, p |-> p]

\* C13: after every call of get_output_freqency_from_error that returns, the
\* frequency model's active (f, p) is the high byte and the low byte of the
\* table register at the clamped index, and the returned frequency is the
\* frequency-model formula at exactly that (f, p); reg_to_frac(256*f + p) is
\* (f, p) for all f, p in 0..255 (evaluated once, before the table is built).
C13_ActiveFraction ==
    /\ pc = "new" => C13_DecodeExact
    /\ (MapperOp /\ res.exc = "none") =>
          LET register == lut_reg[res.set_point + 1]
          IN  /\ res.set_point \in 0..(Len(lut_reg) - 1)
              /\ pll.f = [v |-> (register \div 256) % 256, int |-> TRUE]
              /\ pll.p = [v |-> register % 256, int |-> TRUE]
              /\ res.freq = pll.output_frequency
              /\ C7_OutputIsFormula

\* A returned call that clamped to the last entry of a full three-entry table
\* and left (f, p) = (2, 3), the decode of 0x0203.
C13_Witness ==
    /\ MapperOp /\ res.exc = "none"
    /\ Len(lut_reg) = 3 /\ res.set_point = 2 /\ res.lock_status = 1
    /\ lut_reg[3] = 515
    /\ pll.f.v = 2 /\ pll.p.v = 3

\* ---------------------------------------------------------------- C14

\* What C14 says of one step.
C14_Frame ==
    /\ pll'.input_frequency = pll.input_frequency
    /\ pll'.F = pll.F /\ pll'.R = pll.R /\ pll'.OD = pll.OD
    /\ pll'.ACD = pll.ACD
    /\ Len(lut_reg') = Len(lut_reg)
    /\ \A i \in 1..Len(lut_reg) : lut_reg'[i] = lut_reg[i]
    /\ ctrl'.Kp = ctrl.Kp /\ ctrl'.Ki = ctrl.Ki /\ ctrl'.Kii = ctrl.Kii
    /\ ctrl'.i_windup_limit = ctrl.i_windup_limit
    /\ ctrl'.ii_windup_limit = ctrl.ii_windup_limit

\* C14: frame condition of a tick.  Every do_control call, with the
\* get_output_freqency_from_error call it makes, leaves input_frequency, F,
\* R, OD, ACD, every table entry and the table size, the gains Kp, Ki, Kii and
\* both windup limits as they were; of the PLL configuration only (f, p) and
\* output_frequency may change.
C14_TickFrame == [][C14_Frame]_vars

\* A returned tick that replaced the (f, p) = (0, 3) of construction and the
\* frequency with it, under non-zero Ki.
C14_Witness ==
    /\ TickDone /\ res.exc = "none"
    /\ pll.p.v = 7 /\ pll.f.v >= 1
    /\ pll.output_frequency # pll_formula(xtal_frequency, 99, 0, 4, 4, 0, 3)
    /\ ctrl.Ki # 0 /\ ctrl.i_windup_limit # 0

\* ---------------------------------------------------------------- C15

\* What C15 says of one step: after a tick that left term_i at its clamp
\* limit, a tick whose raw error has the sign of term_i does not increase the
\* magnitude of error_accum.
C15_Step ==
    ( /\ TickDone /\ TickDone'
      /\ ctrl.Ki # 0 /\ res.error_i # 0
      /\ Abs(res.error_i) * ctrl.Ki = 8 * Len(lut_reg)
      /\ res'.raw_error # 0
      /\ (res'.raw_error > 0) <=> (res.error_i > 0) )
    => Abs(ctrl'.error_accum) <= Abs(ctrl.error_accum)

\* C15 as stated: while term_i is held at its clamp limit, further ticks of
\* same-sign raw error do not increase the magnitude of the accumulated error
\* that produces it (so the ticks of opposite error needed to leave the clamp
\* do not grow with the number of saturating ticks).
C15_NoAccumulationWhileSaturated == [][C15_Step]_vars

\* ---------------------------------------------------------------- C16

\* What C16 says of one step: a do_control call fails with a divide-by-zero
\* error exactly when its period_fraction is 0, and the failed call leaves
\* the controller (previous count, expected_count_float, ref_clk_count, both
\* accumulators, total error, ...) and the frequency model (active (f, p),
\* ...) exactly as they were.
C16_Step ==
    res'.op = "do_control" =>
        /\ (res'.period_fraction.num = 0) <=> (res'.exc = "ZeroDivisionError")
        /\ res'.period_fraction.num = 0 =>
              /\ ctrl' = ctrl
              /\ pll' = pll
              /\ lut_reg' = lut_reg

\* C16: a tick called with period_fraction = 0 fails with a divide-by-zero
\* error and leaves the whole controller and mapper state as before the call,
\* so the next valid tick starts from the state the failed call found.
C16_ZeroPeriodFraction == [][C16_Step]_vars

\* A call failed at the division after a tick had moved the previous count,
\* both accumulators and the active (f, p) away from their initial values.
C16_Witness ==
    /\ res.op = "do_control" /\ res.exc = "ZeroDivisionError"
    /\ res.period_fraction.num = 0
    /\ drv.ticks >= 1 /\ drv.calls > drv.ticks
    /\ res.mclk_count_float \div 2 # ctrl.mclk_count_old
    /\ ctrl.error_accum # 0 /\ ctrl.error # 0
    /\ pll.p.v = 7

\* ---------------------------------------------------------------- C17

\* C17: telescoping of the single integral.  With period_fraction = 1 and an
\* integer count on every tick (the driver of the wrapping loop), after n
\* ticks error_accum = (last measured count - initial count) - n *
\* floor(expected_increment), whatever the counts in between, the gains and
\* the lock statuses returned on the way.  (Initial count 0, expected
\* increment 24576; counts and error_accum in units of 1/2.)
C17_Telescoping ==
    TickDone =>
        /\ res.period_fraction = [num |-> 1, den |-> 1]
        /\ res.mclk_count_float % 2 = 0
        /\ ctrl.error_accum = (res.mclk_count_float - 0) - drv.ticks * 2 * 24576

\* Four ticks under a non-zero Kp, the count having wrapped on the way, the
\* last one returned with a raw error that is not the accumulated error.
C17_Witness ==
    /\ TickDone /\ drv.ticks >= 4
    /\ ctrl.Kp # 0
    /\ res.mclk_count_float < drv.ticks * 24576
    /\ res.exc = "none"
    /\ ctrl.error_accum # res.raw_error
    /\ ctrl.error_accum # 0

====
